---- MODULE Spec2Model ----
(***************************************************************************)
(* Model of main.py of whisper-subtitle-gui: the SRT serialisation          *)
(* (save_srt, format_time), the FFmpeg probe (check_ffmpeg), the            *)
(* transcription wrapper (transcribe_video) and the "Generate Subtitles"    *)
(* handler of the Streamlit script.                                         *)
(*                                                                          *)
(* Strings are sequences of one-character strings.  A Python float is an    *)
(* IEEE-754 binary64 value; a non-negative one is held as                   *)
(*   [int |-> floor of the value, frac |-> the bits of its fraction],       *)
(* the fraction bits being exactly those the 53-bit significand leaves      *)
(* after the integer part.                                                  *)
(***************************************************************************)
EXTENDS Integers, Sequences, FiniteSets, TLC

VARIABLES
    \* the position of the running code
    pc,
    \* format_time: the decimal the argument was written as, the float
    \* passed in, the locals and the returned string
    lit, seconds, h, m, s, ms, result,
    \* save_srt: the argument, the enumerate position and the locals
    segments, pos, i, start, end, text, srt_str,
    \* the script: the widget values, the machine it runs on, its globals,
    \* the page it renders and the log
    button, video_file,
    ffmpeg_runs, pip_installs, temp_exists,
    ffmpeg_ok, temp_video_path, exc, srt_content,
    progress_text, shown, download,
    log,
    \* concurrent callers of save_srt: one frame per caller
    calls

timeVars == <<lit, seconds, h, m, s, ms, result>>
srtVars == <<segments, pos, i, start, end, text, srt_str>>
widgetVars == <<button, video_file>>
machineVars == <<ffmpeg_runs, pip_installs, temp_exists>>
globalVars == <<ffmpeg_ok, temp_video_path, exc, srt_content>>
pageVars == <<progress_text, shown, download>>
scriptVars == <<widgetVars, machineVars, globalVars, pageVars, log>>

vars == <<pc, timeVars, srtVars, scriptVars, calls>>

None == "None"

-----------------------------------------------------------------------------
(* Python floats *)

\* significand width of a Python float (binary64)
MantissaBits == 53

\* shifts that keep a numerator below 10^4 within the machine integers
ShiftBits == 17

\* int.bit_length(), 0 <= n < 2^30
BitLen(n) ==
    IF n = 0 THEN 0
    ELSE CHOOSE b \in 1..30 : 2 ^ (b - 1) <= n /\ n < 2 ^ b

RECURSIVE ExpandRem(_, _, _)
\* what is left of r/den after the first n bits of its binary expansion, as
\* a numerator over den (0 <= r < den <= 10^4): r * 2^n mod den, a limb of
\* shifts at a time
ExpandRem(r, den, n) ==
    IF n <= ShiftBits THEN (r * (2 ^ n)) % den
    ELSE ExpandRem((r * (2 ^ ShiftBits)) % den, den, n - ShiftBits)

\* the first n bits of the binary expansion of r/den, 0 <= r < den
ExpandBits(r, den, n) ==
    [j \in 1..n |-> IF 2 * ExpandRem(r, den, j - 1) >= den THEN 1 ELSE 0]

\* the number of zero bits before the first one bit of r/den, 0 < r < den
LeadingZeros(r, den) ==
    CHOOSE z \in 0..BitLen(den) :
        /\ 2 * ExpandRem(r, den, z) >= den
        /\ \A j \in 0..(z - 1) : 2 * ExpandRem(r, den, j) < den

AllOnes(bits) == \A k \in 1..Len(bits) : bits[k] = 1

\* bits + one unit in the last place, for bits that are not all ones
Increment(bits) ==
    LET p == CHOOSE k \in 1..Len(bits) :
                 bits[k] = 0 /\ \A j \in (k + 1)..Len(bits) : bits[j] = 1
    IN  [k \in 1..Len(bits) |-> IF k < p THEN bits[k] ELSE IF k = p THEN 1 ELSE 0]

\* round-half-even of int + 0.bits to q fraction bits; `above` says that
\* something non-zero lies beyond bits
RoundTo(int, bits, q, above) ==
    IF q >= Len(bits) THEN [int |-> int, frac |-> bits]
    ELSE LET kept == SubSeq(bits, 1, q)
             half == bits[q + 1] = 1
             more == above \/ \E k \in (q + 2)..Len(bits) : bits[k] = 1
             odd  == IF q = 0 THEN int % 2 = 1 ELSE bits[q] = 1
             up   == half /\ (more \/ odd)
         IN  IF ~up THEN [int |-> int, frac |-> kept]
             ELSE IF AllOnes(kept)
                  THEN [int |-> int + 1, frac |-> [k \in 1..q |-> 0]]
                  ELSE [int |-> int, frac |-> Increment(kept)]

\* fraction bits a float with integer part int and fraction 0.bits keeps
FracWidth(int, bits) ==
    IF int > 0 THEN MantissaBits - BitLen(int)
    ELSE LET z == CHOOSE k \in 0..Len(bits) :
                     /\ \A j \in 1..k : bits[j] = 0
                     /\ (k = Len(bits) \/ bits[k + 1] = 1)
         IN  z + MantissaBits

\* the float nearest to whole + num/den (0 <= num < den): what float() and
\* a float literal give for the decimal
ToFloat(whole, num, den) ==
    IF num = 0 THEN [int |-> whole, frac |-> <<>>]
    ELSE LET q == IF whole > 0 THEN MantissaBits - BitLen(whole)
                  ELSE LeadingZeros(num, den) + MantissaBits
             bits == ExpandBits(num, den, q + 1)
             rem  == ExpandRem(num, den, q + 1)
         IN  RoundTo(whole, bits, q, rem # 0)

\* the largest float below whole + 1 (whole >= 1)
FloatBelow(whole) ==
    [int |-> whole, frac |-> [k \in 1..(MantissaBits - BitLen(whole)) |-> 1]]

\* the arithmetic below works on limbs of this many bits
LimbBits == 20

RECURSIVE BitsVal(_)
\* the integer whose binary digits are bits (at most LimbBits of them)
BitsVal(bits) ==
    IF Len(bits) = 0 THEN 0
    ELSE IF Len(bits) = 1 THEN bits[1]
    ELSE LET mid == Len(bits) \div 2
         IN  BitsVal(SubSeq(bits, 1, mid)) * (2 ^ (Len(bits) - mid))
                 + BitsVal(SubSeq(bits, mid + 1, Len(bits)))

\* the w binary digits of t, 0 <= t < 2^w
NatBits(t, w) == [j \in 1..w |-> (t \div (2 ^ (w - j))) % 2]

RECURSIVE MulBits(_, _, _)
\* bits * k + carry (carry in units of the last place), exactly, a limb at
\* a time from the last place up: <<the carry into the integer part, the
\* fraction bits>>
MulBits(bits, k, carry) ==
    IF Len(bits) = 0 THEN <<carry, <<>>>>
    ELSE LET n == Len(bits)
             w == IF n > LimbBits THEN LimbBits ELSE n
             t == BitsVal(SubSeq(bits, n - w + 1, n)) * k + carry
         IN  IF t < 0 THEN <<0, <<>>>>
             ELSE LET rest == MulBits(SubSeq(bits, 1, n - w), k, t \div (2 ^ w))
                  IN  <<rest[1], rest[2] \o NatBits(t % (2 ^ w), w)>>

\* x * k for a float x in [0, 1) and a small integer k, rounded to a float
FloatMul(x, k) ==
    LET p == MulBits(x.frac, k, 0)
    IN  RoundTo(p[1], p[2], FracWidth(p[1], p[2]), FALSE)

\* x // d for a float x >= 0 and an integer d: exact (x - fmod(x, d) is a
\* multiple of d below 2^53)
FloatFloorDiv(x, d) == [int |-> x.int \div d, frac |-> <<>>]

\* x % d for a float x >= 0 and an integer d: fmod is exact
FloatMod(x, d) == [int |-> x.int % d, frac |-> x.frac]

\* x - int(x): exact
FloatSubInt(x, n) == [int |-> x.int - n, frac |-> x.frac]

\* int(x): truncation
ToInt(x) == x.int

-----------------------------------------------------------------------------
(* Text *)

DigitChar == <<"0", "1", "2", "3", "4", "5", "6", "7", "8", "9">>

RECURSIVE Digits(_)
\* str(n) for an int n >= 0
Digits(n) ==
    IF n < 10 THEN <<DigitChar[n + 1]>>
    ELSE Digits(n \div 10) \o <<DigitChar[(n % 10) + 1]>>

\* f"{n:0w}" for an int n >= 0: zero-padded to at least w characters
ZeroPad(n, w) ==
    LET d == Digits(n)
    IN  IF Len(d) >= w THEN d ELSE [k \in 1..(w - Len(d)) |-> "0"] \o d

-----------------------------------------------------------------------------
(* format_time *)

SecondsPerHour == 3600
SecondsPerMinute == 60
MillisPerSecond == 1000

\* h = int(seconds // 3600)
fmt_h(x) == ToInt(FloatFloorDiv(x, SecondsPerHour))

\* m = int((seconds % 3600) // 60)
fmt_m(x) == ToInt(FloatFloorDiv(FloatMod(x, SecondsPerHour), SecondsPerMinute))

\* s = int(seconds % 60)
fmt_s(x) == ToInt(FloatMod(x, SecondsPerMinute))

\* ms as a rounding implementation would compute it: int(round(... * 1000))
fmt_ms_rounded(x) ==
    LET p == FloatMul(FloatSubInt(x, ToInt(x)), MillisPerSecond)
    IN  IF Len(p.frac) > 0 /\ p.frac[1] = 1 THEN p.int + 1 ELSE p.int

\* ms = int((seconds - int(seconds)) * 1000)
fmt_ms(x) == ToInt(FloatMul(FloatSubInt(x, ToInt(x)), MillisPerSecond))

\* f"{h:02}:{m:02}:{s:02},{ms:03}"
fmt_string(hh, mm, ss, mmm) ==
    ZeroPad(hh, 2) \o <<":">> \o ZeroPad(mm, 2) \o <<":">> \o ZeroPad(ss, 2)
        \o <<",">> \o ZeroPad(mmm, 3)

format_time(x) == fmt_string(fmt_h(x), fmt_m(x), fmt_s(x), fmt_ms(x))

-----------------------------------------------------------------------------
(* save_srt *)

\* the characters str.strip() removes (those of str.isspace() that a
\* string of this model can hold)
Whitespace == {" ", "\t", "\n", "\r", "\f"}

\* how many characters str.strip() skips from the left
StripLeft(str) ==
    CHOOSE a \in 0..Len(str) :
        /\ \A k \in 1..a : str[k] \in Whitespace
        /\ (a = Len(str) \/ str[a + 1] \notin Whitespace)

\* where str.strip() ends, having skipped a characters from the left
StripRight(str, a) ==
    CHOOSE b \in a..Len(str) :
        /\ \A k \in (b + 1)..Len(str) : str[k] \in Whitespace
        /\ (b = a \/ str[b] \notin Whitespace)

\* str.lstrip()
lstrip(str) == SubSeq(str, StripLeft(str) + 1, Len(str))

\* str.strip()
strip(str) == SubSeq(str, StripLeft(str) + 1, StripRight(str, StripLeft(str)))

\* enumerate(segments, 1) counts from 1
EnumerateStart == 1

\* enumerate(segments): counting from 0, its default
enumerate_default(offset) == offset

\* enumerate(segments, 1): the index of the element at offset
enumerate(offset) == EnumerateStart + offset

NL == <<"\n">>
Arrow == <<" ", "-", "-", ">", " ">>

\* the block without the blank line that ends it
BlockNoBlankLine(idx, st, en, txt) ==
    Digits(idx) \o NL \o st \o Arrow \o en \o NL \o txt \o NL

\* f"{i}\n{start} --> {end}\n{text}\n\n"
Block(idx, st, en, txt) ==
    Digits(idx) \o NL \o st \o Arrow \o en \o NL \o txt \o NL \o NL

-----------------------------------------------------------------------------
(* Values the variables hold outside the code that uses them *)

NoFloat == [int |-> 0, frac |-> <<>>]
NoLit == [kind |-> "none", whole |-> 0, num |-> 0, den |-> 1]
NoFile == [uploaded |-> FALSE, name |-> <<>>]
NoExc == [raised |-> FALSE, msg |-> {}, origin |-> "none"]

TimeIdle ==
    /\ lit = NoLit /\ seconds = NoFloat
    /\ h = 0 /\ m = 0 /\ s = 0 /\ ms = 0 /\ result = <<>>

SrtIdle ==
    /\ segments = <<>> /\ pos = 0 /\ i = 0
    /\ start = <<>> /\ end = <<>> /\ text = <<>> /\ srt_str = <<>>

PageIdle == progress_text = None /\ shown = <<>> /\ download = <<>>

GlobalsIdle ==
    /\ ffmpeg_ok = FALSE /\ temp_video_path = None
    /\ exc = NoExc /\ srt_content = <<>>

ScriptIdle ==
    /\ button = FALSE /\ video_file = NoFile
    /\ ffmpeg_runs = FALSE /\ pip_installs = FALSE /\ temp_exists = FALSE
    /\ GlobalsIdle /\ PageIdle /\ log = <<>>

CallsIdle == calls = <<>>

-----------------------------------------------------------------------------
(* format_time called on its own *)

\* whole seconds the arguments are taken around: zero, below and at the
\* minute and hour boundaries, past 99 hours
Wholes == {0, 1, 5, 59, 60, 3599, 3600, 4000, 359999, 360000}

\* the arguments: every millisecond of each whole second, values within a
\* millisecond of the next second, and the last float before it
TimeLiterals ==
    [kind : {"decimal"}, whole : Wholes, num : 0..999, den : {1000}]
        \cup [kind : {"decimal"}, whole : Wholes \ {0}, num : {9995}, den : {10000}]
        \cup [kind : {"below"}, whole : Wholes \ {0}, num : {0}, den : {1}]

LitFloat(l) ==
    IF l.kind = "below" THEN FloatBelow(l.whole)
    ELSE ToFloat(l.whole, l.num, l.den)

InitTime ==
    /\ pc = "format_time"
    /\ lit \in TimeLiterals
    /\ seconds = LitFloat(lit)
    /\ h = 0 /\ m = 0 /\ s = 0 /\ ms = 0 /\ result = <<>>
    /\ SrtIdle /\ ScriptIdle /\ CallsIdle

\* the body of format_time
FormatTime ==
    /\ pc = "format_time"
    /\ h' = fmt_h(seconds)
    /\ m' = fmt_m(seconds)
    /\ s' = fmt_s(seconds)
    /\ ms' = fmt_ms(seconds)
    /\ result' = fmt_string(h', m', s', ms')
    /\ pc' = "format_time_returned"
    /\ UNCHANGED <<lit, seconds, srtVars, scriptVars, calls>>

NextTime == FormatTime

SpecTime == InitTime /\ [][NextTime]_vars

-----------------------------------------------------------------------------
(* Reading a clock string back *)

IsDigit(c) == \E d \in 1..10 : DigitChar[d] = c

DigitVal(c) == (CHOOSE d \in 1..10 : DigitChar[d] = c) - 1

RECURSIVE NatOf(_)
\* int(digits) for a non-empty run of digits
NatOf(digits) ==
    IF Len(digits) = 1 THEN DigitVal(digits[1])
    ELSE 10 * NatOf(SubSeq(digits, 1, Len(digits) - 1)) + DigitVal(digits[Len(digits)])

\* str is H..H:MM:SS,mmm with at least two hour digits
IsClock(str) ==
    LET n == Len(str)
    IN  /\ n >= 12
        /\ str[n - 3] = "," /\ str[n - 6] = ":" /\ str[n - 9] = ":"
        /\ \A k \in (1..n) \ {n - 3, n - 6, n - 9} : IsDigit(str[k])

ClockHours(str) == NatOf(SubSeq(str, 1, Len(str) - 10))
ClockMinutes(str) == NatOf(SubSeq(str, Len(str) - 8, Len(str) - 7))
ClockSeconds(str) == NatOf(SubSeq(str, Len(str) - 5, Len(str) - 4))
ClockMillis(str) == NatOf(SubSeq(str, Len(str) - 2, Len(str)))

\* the milliseconds of the decimal whole + num/den, by floor
DecimalMillis(l) == (l.num * MillisPerSecond) \div l.den

-----------------------------------------------------------------------------
(* Claims about format_time (SpecTime) *)

\* C3: for every non-negative seconds value x, written as a decimal,
\* format_time(x) is the string whose fields are floor(x/3600),
\* floor((x mod 3600)/60), floor(x mod 60) and floor((x - floor(x)) * 1000),
\* zero-padded to 2, 2, 2 and 3 digits, the hours widening past 99; so
\* 5.007 gives 00:00:05,007 and 3599.999 gives 00:59:59,999.
C3_FloorFieldsOfSeconds ==
    (pc = "format_time_returned" /\ lit.kind = "decimal") =>
        result = fmt_string(lit.whole \div SecondsPerHour,
                            (lit.whole % SecondsPerHour) \div SecondsPerMinute,
                            lit.whole % SecondsPerMinute,
                            DecimalMillis(lit))

\* C4: for every non-negative seconds value, also just below a second,
\* minute or hour boundary, the string format_time returns is a clock
\* reading with exactly two minute digits in 0..59, two second digits in
\* 0..59 and three millisecond digits, its hours, minutes and seconds are
\* those of the whole seconds of the value (nothing rolls over to the next
\* second, minute or hour), and the locals are in the same ranges.
C4_FieldsInRange ==
    pc = "format_time_returned" =>
        /\ IsClock(result)
        /\ ClockMinutes(result) \in 0..59
        /\ ClockSeconds(result) \in 0..59
        /\ ClockMillis(result) \in 0..999
        /\ ClockHours(result) * SecondsPerHour
               + ClockMinutes(result) * SecondsPerMinute
               + ClockSeconds(result) = lit.whole
        /\ m \in 0..59 /\ s \in 0..59 /\ ms \in 0..999

\* 59.9995 s was formatted, as 00:00:59,999
C4_Witness ==
    /\ pc = "format_time_returned"
    /\ lit = [kind |-> "decimal", whole |-> 59, num |-> 9995, den |-> 10000]
    /\ result = <<"0", "0", ":", "0", "0", ":", "5", "9", ",", "9", "9", "9">>

-----------------------------------------------------------------------------
(* save_srt called on its own *)

MaxSegs == 2
MaxTextLen == 3

BoundedSeqs(S, n) == UNION {[1..k -> S] : k \in 0..n}

\* segment times: 1.5 s and 3.8 s, in every order
SegTimes == {ToFloat(1, 500, 1000), ToFloat(3, 800, 1000)}

\* format_time(segment["start"]) and format_time(segment["end"]) for the
\* times the segments carry, computed once per time
format_time_of == [x \in SegTimes |-> format_time(x)]

\* segment texts: empty, whitespace only, plain, padded with an embedded
\* newline
SegTexts ==
    { <<>>, <<" ", "\n">>, <<"H", "i">>, <<" ", "a", " ", "\n", "b", " ">> }

SmallSegs == [start : SegTimes, end : SegTimes, text : SegTexts]

\* the segment lists save_srt is called on
SegSeqs == BoundedSeqs(SmallSegs, MaxSegs)

\* one segment with every text of at most MaxTextLen characters
TextSegs ==
    [start : {ToFloat(1, 500, 1000)}, end : {ToFloat(3, 800, 1000)},
     text : BoundedSeqs({" ", "\n", "a"}, MaxTextLen)]

SrtInputs == SegSeqs \cup {<<seg>> : seg \in TextSegs}

InitSrt ==
    /\ pc = "save_srt"
    /\ segments \in SrtInputs
    /\ pos = 0 /\ i = 0 /\ start = <<>> /\ end = <<>> /\ text = <<>>
    /\ srt_str = <<>>
    /\ TimeIdle /\ ScriptIdle /\ CallsIdle

\* one pass of the loop of save_srt
SrtLoop ==
    /\ pc = "save_srt"
    /\ pos < Len(segments)
    /\ LET segment == segments[pos + 1]
           idx == enumerate(pos)
           st == format_time_of[segment.start]
           en == format_time_of[segment.end]
           txt == strip(segment.text)
       IN  /\ i' = idx
           /\ start' = st
           /\ end' = en
           /\ text' = txt
           /\ srt_str' = srt_str \o Block(idx, st, en, txt)
    /\ pos' = pos + 1
    /\ UNCHANGED <<pc, segments, timeVars, scriptVars, calls>>

\* return srt_str, into srt_content = save_srt(segments)
SrtReturn ==
    /\ pc = "save_srt"
    /\ pos = Len(segments)
    /\ srt_content' = srt_str
    /\ pc' = "show_success"
    /\ UNCHANGED <<srtVars, timeVars, calls, widgetVars, machineVars,
                   ffmpeg_ok, temp_video_path, exc, pageVars, log>>

NextSrt == SrtLoop \/ SrtReturn

SpecSrt == InitSrt /\ [][NextSrt]_vars

-----------------------------------------------------------------------------
(* Claims about save_srt (SpecSrt) *)

SrtReturned == pc = "show_success"

\* the length of the k-th block of the document of segs
BlockLen(segs, k) ==
    Len(Digits(k)) + 1
        + Len(format_time(segs[k].start)) + Len(Arrow) + Len(format_time(segs[k].end)) + 1
        + Len(strip(segs[k].text)) + 2

RECURSIVE BlockStart(_, _)
\* where the k-th block of the document of segs starts
BlockStart(segs, k) ==
    IF k = 1 THEN 1 ELSE BlockStart(segs, k - 1) + BlockLen(segs, k - 1)

\* C1: for every input of N >= 0 segments save_srt returns a document of
\* exactly N blocks, the k-th of which starts with the index line k, for
\* k = 1..N in input order, whatever the segments hold (also an empty or
\* whitespace-only text); for N = 0 it returns the empty string.
C1_IndexLines ==
    SrtReturned =>
        LET N == Len(segments)
        IN  /\ N = 0 => srt_content = <<>>
            /\ BlockStart(segments, N + 1) = Len(srt_content) + 1
            /\ \A k \in 1..N :
                   SubSeq(srt_content, BlockStart(segments, k),
                          BlockStart(segments, k) + Len(Digits(k)))
                       = Digits(k) \o NL

\* two segments, the first with a whitespace-only text, were serialised
C1_Witness ==
    /\ SrtReturned
    /\ Len(segments) = 2
    /\ segments[1].text = <<" ", "\n">>
    /\ Len(srt_content) > 0

RECURSIVE ExpectedDoc(_, _)
\* the blocks of the first n segments of segs, in input order
ExpectedDoc(segs, n) ==
    IF n = 0 THEN <<>>
    ELSE ExpectedDoc(segs, n - 1)
             \o Digits(n) \o <<"\n">>
             \o format_time(segs[n].start) \o <<" ", "-", "-", ">", " ">>
             \o format_time(segs[n].end) \o <<"\n">>
             \o strip(segs[n].text) \o <<"\n", "\n">>

\* C2: the document save_srt builds is the concatenation, in input order,
\* of one block per segment, the k-th being k, a newline, format_time(start)
\* --> format_time(end), a newline, the stripped text and a blank line; no
\* segment is re-sorted, dropped or validated, and the last block ends with
\* the blank line too.
C2_Concatenation ==
    /\ pc = "save_srt" => srt_str = ExpectedDoc(segments, pos)
    /\ SrtReturned => srt_content = ExpectedDoc(segments, Len(segments))

\* two segments that start out of order, the first ending before it
\* starts, were serialised
C2_Witness ==
    /\ SrtReturned
    /\ Len(segments) = 2
    /\ segments[1].start = ToFloat(3, 800, 1000)
    /\ segments[1].end = ToFloat(1, 500, 1000)
    /\ segments[2].start = ToFloat(1, 500, 1000)
    /\ Len(srt_content) > 0

\* t is raw without its leading and trailing whitespace, and nothing else
Trimmed(raw, t) ==
    \E a \in 0..Len(raw) : \E b \in a..Len(raw) :
        /\ t = SubSeq(raw, a + 1, b)
        /\ \A k \in 1..a : raw[k] \in Whitespace
        /\ \A k \in (b + 1)..Len(raw) : raw[k] \in Whitespace
        /\ a < b => (raw[a + 1] \notin Whitespace /\ raw[b] \notin Whitespace)

\* C5: the text emitted in a segment's block is the segment's text without
\* its leading and trailing whitespace and otherwise unchanged (interior
\* spaces and newlines stay); an empty or whitespace-only text gives an
\* empty text line, and the block is emitted all the same.
C5_StrippedText ==
    (pc \in {"save_srt", "show_success"} /\ pos >= 1) =>
        LET raw == segments[pos].text
            n   == Len(srt_str)
        IN  /\ Trimmed(raw, text)
            /\ (\A k \in 1..Len(raw) : raw[k] \in Whitespace) => text = <<>>
            /\ n >= Len(text) + 3
            /\ SubSeq(srt_str, n - Len(text) - 2, n) = NL \o text \o NL \o NL
            /\ n = BlockStart(segments, pos + 1) - 1

\* the text " a \nb " was emitted as "a \nb"
C5_Witness ==
    /\ pos >= 1 /\ pc = "save_srt"
    /\ segments[pos].text = <<" ", "a", " ", "\n", "b", " ">>
    /\ text = <<"a", " ", "\n", "b">>

-----------------------------------------------------------------------------
(* The script: check_ffmpeg, then the "Generate Subtitles" handler *)

\* a page element: the widget and what it says
Shown(widget, body) == [widget |-> widget, body |-> body, detail |-> {}]
ShownAbout(widget, body, msg) == [widget |-> widget, body |-> body, detail |-> msg]

\* a log record: the level and what it says
Logged(level, body) == [level |-> level, body |-> body, detail |-> {}]
LoggedAbout(level, body, msg) == [level |-> level, body |-> body, detail |-> msg]

\* what the handler looks for in str(e).lower()
Keywords == {"out of memory", "format", "codec", "permission"}

\* the messages of the exceptions raised: the keywords each contains
ErrorMessages ==
    { {}, {"out of memory"}, {"format"}, {"codec"}, {"permission"},
      {"out of memory", "format", "permission"}, {"codec", "permission"} }

Raised(origin, msg) == [raised |-> TRUE, msg |-> msg, origin |-> origin]

\* the segments of the transcripts the script's runs get back
ScriptSegs ==
    { [start |-> ToFloat(1, 500, 1000), end |-> ToFloat(3, 800, 1000),
       text |-> <<" ", "a", " ", "\n", "b", " ">>],
      [start |-> ToFloat(3, 800, 1000), end |-> ToFloat(3, 800, 1000),
       text |-> <<"H", "i">>] }

\* what transcribe_video returns to the script
Transcripts == BoundedSeqs(ScriptSegs, MaxSegs)

AFile == [uploaded |-> TRUE, name |-> <<"a", ".", "m", "p", "4">>]

TempPath == "temp_video"

Init ==
    /\ pc = "check_ffmpeg"
    /\ button \in BOOLEAN
    /\ video_file \in {NoFile, AFile}
    /\ ffmpeg_runs \in BOOLEAN
    /\ pip_installs \in BOOLEAN
    /\ temp_exists = FALSE
    /\ GlobalsIdle /\ PageIdle /\ log = <<>>
    /\ TimeIdle /\ SrtIdle /\ CallsIdle

\* ffmpeg_ok = check_ffmpeg().  pip installs the ffmpeg-python package,
\* which leaves the ffmpeg executable as it was; the function does not run
\* ffmpeg again.
CheckFfmpeg ==
    /\ pc = "check_ffmpeg"
    /\ \/ /\ ffmpeg_runs
          /\ ffmpeg_ok' = TRUE
          /\ UNCHANGED shown
       \/ /\ ~ffmpeg_runs
          /\ pip_installs
          /\ shown' = shown \o <<Shown("warning", "FFmpeg not found. Attempting to install..."),
                                 Shown("info", "Installed ffmpeg-python")>>
          /\ ffmpeg_ok' = TRUE
       \/ /\ ~ffmpeg_runs
          /\ ~pip_installs
          /\ shown' = shown \o <<Shown("warning", "FFmpeg not found. Attempting to install..."),
                                 Shown("error", "Could not install FFmpeg. Please contact support.")>>
          /\ ffmpeg_ok' = FALSE
    /\ pc' = "gate"
    /\ UNCHANGED <<timeVars, srtVars, widgetVars, machineVars, temp_video_path,
                   exc, srt_content, progress_text, download, log, calls>>

\* the condition without the FFmpeg check
GateIgnoringFfmpeg(pressed, file, ok) == pressed /\ file.uploaded

\* st.button("Generate Subtitles") and video_file and ffmpeg_ok
GateOpen(pressed, file, ok) == pressed /\ file.uploaded /\ ok

\* if st.button(...) and video_file and ffmpeg_ok: temp_video_path = None
Gate ==
    /\ pc = "gate"
    /\ pc' = IF GateOpen(button, video_file, ffmpeg_ok) THEN "save_upload" ELSE "done"
    /\ UNCHANGED <<timeVars, srtVars, scriptVars, calls>>

\* progress_text.text("Saving uploaded file..."), then the with block that
\* creates the temporary file (delete=False), writes the upload into it and
\* records its name
SaveUpload ==
    /\ pc = "save_upload"
    /\ progress_text' = "Saving uploaded file..."
    /\ \/ /\ temp_exists' = TRUE
          /\ temp_video_path' = TempPath
          /\ pc' = "transcribe"
          /\ UNCHANGED exc
       \/ \E msg \in ErrorMessages :
              \* NamedTemporaryFile raises: no file
              /\ exc' = Raised("tempfile", msg)
              /\ pc' = "except"
              /\ UNCHANGED <<temp_exists, temp_video_path>>
       \/ \E msg \in ErrorMessages :
              \* write raises: the file exists, its name was not recorded
              /\ temp_exists' = TRUE
              /\ exc' = Raised("write", msg)
              /\ pc' = "except"
              /\ UNCHANGED temp_video_path
    /\ UNCHANGED <<timeVars, srtVars, widgetVars, ffmpeg_runs, pip_installs,
                   ffmpeg_ok, srt_content, shown, download, log, calls>>

\* raise Exception(): another exception, without the message
RaiseAnother(e) == [e EXCEPT !.msg = {}]

\* raise e
Reraise(e) == e

\* progress_text.text("Loading Whisper model..."), then
\* segments = transcribe_video(temp_video_path, model_size); on return
\* progress_text.text("Generating subtitles...") and save_srt is entered
Transcribe ==
    /\ pc = "transcribe"
    /\ \/ \E e \in {Raised("load_model", msg) : msg \in ErrorMessages} :
              /\ log' = log \o <<Logged("info", "Loading Whisper model"),
                                 LoggedAbout("error", "Error during transcription", e.msg)>>
              /\ exc' = Reraise(e)
              /\ progress_text' = "Loading Whisper model..."
              /\ pc' = "except"
              /\ UNCHANGED srtVars
       \/ \E e \in {Raised("transcribe", msg) : msg \in ErrorMessages} :
              /\ log' = log \o <<Logged("info", "Loading Whisper model"),
                                 Logged("info", "Transcribing video"),
                                 LoggedAbout("error", "Error during transcription", e.msg)>>
              /\ exc' = Reraise(e)
              /\ progress_text' = "Loading Whisper model..."
              /\ pc' = "except"
              /\ UNCHANGED srtVars
       \/ \E segs \in Transcripts :
              /\ log' = log \o <<Logged("info", "Loading Whisper model"),
                                 Logged("info", "Transcribing video")>>
              /\ segments' = segs
              /\ progress_text' = "Generating subtitles..."
              /\ pos' = 0 /\ srt_str' = <<>>
              /\ pc' = "save_srt"
              /\ UNCHANGED <<exc, i, start, end, text>>
    /\ UNCHANGED <<timeVars, widgetVars, machineVars, ffmpeg_ok, temp_video_path,
                   srt_content, shown, download, calls>>

\* srt_content = save_srt(segments) raises, on a segment that lacks a key
\* or whose text is no string
SrtRaise ==
    /\ pc = "save_srt"
    /\ \E msg \in ErrorMessages : exc' = Raised("save_srt", msg)
    /\ pc' = "except"
    /\ UNCHANGED <<timeVars, srtVars, widgetVars, machineVars, ffmpeg_ok,
                   temp_video_path, srt_content, pageVars, log, calls>>

\* progress_text.text("Complete!"); st.success(...)
ShowSuccess ==
    /\ pc = "show_success"
    /\ progress_text' = "Complete!"
    /\ \/ /\ shown' = shown \o <<Shown("success", "Subtitles generated successfully!")>>
          /\ pc' = "show_preview"
          /\ UNCHANGED exc
       \/ \E msg \in ErrorMessages :
              /\ exc' = Raised("st.success", msg)
              /\ pc' = "except"
              /\ UNCHANGED shown
    /\ UNCHANGED <<timeVars, srtVars, widgetVars, machineVars, ffmpeg_ok,
                   temp_video_path, srt_content, download, log, calls>>

\* st.text_area("Preview (first 3 subtitles):", ...); the preview's text
\* is not modelled
ShowPreview ==
    /\ pc = "show_preview"
    /\ \/ /\ shown' = shown \o <<Shown("text_area", "Preview (first 3 subtitles):")>>
          /\ pc' = "show_download"
          /\ UNCHANGED exc
       \/ \E msg \in ErrorMessages :
              /\ exc' = Raised("st.text_area", msg)
              /\ pc' = "except"
              /\ UNCHANGED shown
    /\ UNCHANGED <<timeVars, srtVars, widgetVars, machineVars, ffmpeg_ok,
                   temp_video_path, srt_content, progress_text, download, log, calls>>

\* st.download_button("Download .srt file", srt_content, ...)
ShowDownload ==
    /\ pc = "show_download"
    /\ \/ /\ shown' = shown \o <<Shown("download_button", "Download .srt file")>>
          /\ download' = srt_content
          /\ pc' = "finally"
          /\ UNCHANGED exc
       \/ \E msg \in ErrorMessages :
              /\ exc' = Raised("st.download_button", msg)
              /\ pc' = "except"
              /\ UNCHANGED <<shown, download>>
    /\ UNCHANGED <<timeVars, srtVars, widgetVars, machineVars, ffmpeg_ok,
                   temp_video_path, srt_content, progress_text, log, calls>>

\* the if/elif chain of the except branch
Suggestion(msg) ==
    IF "out of memory" \in msg
    THEN "Memory error: Try using a smaller model (tiny/base) or a shorter video."
    ELSE IF "format" \in msg \/ "codec" \in msg
    THEN "Video format error: Try converting your video to MP4 format."
    ELSE IF "permission" \in msg
    THEN "Permission error: Check file permissions and disk space."
    ELSE "Try using a different model size or check that your video file is valid."

\* except Exception as e
ExceptBranch ==
    /\ pc = "except"
    /\ shown' = shown \o <<ShownAbout("error", "Error processing video", exc.msg),
                           Shown("error", Suggestion(exc.msg))>>
    /\ log' = log \o <<LoggedAbout("error", "Processing error", exc.msg)>>
    /\ pc' = "finally"
    /\ UNCHANGED <<timeVars, srtVars, widgetVars, machineVars, globalVars,
                   progress_text, download, calls>>

\* a finally block that cleans nothing up
CleanupNever(path, exists) == FALSE

\* if temp_video_path and os.path.exists(temp_video_path)
CleanupDue(path, exists) == path # None /\ exists

\* finally: os.remove removes the file, or raises and the failure is logged
Finally ==
    /\ pc = "finally"
    /\ \/ /\ CleanupDue(temp_video_path, temp_exists)
          /\ temp_exists' = FALSE
          /\ log' = log \o <<Logged("info", "Temporary file cleaned up")>>
       \/ /\ CleanupDue(temp_video_path, temp_exists)
          /\ log' = log \o <<Logged("warning", "Failed to clean up temporary file")>>
          /\ UNCHANGED temp_exists
       \/ /\ ~CleanupDue(temp_video_path, temp_exists)
          /\ UNCHANGED <<temp_exists, log>>
    /\ pc' = "done"
    /\ UNCHANGED <<timeVars, srtVars, widgetVars, ffmpeg_runs, pip_installs,
                   globalVars, pageVars, calls>>

Next ==
    \/ CheckFfmpeg
    \/ Gate
    \/ SaveUpload
    \/ Transcribe
    \/ SrtLoop
    \/ SrtReturn
    \/ SrtRaise
    \/ ShowSuccess
    \/ ShowPreview
    \/ ShowDownload
    \/ ExceptBranch
    \/ Finally

Spec == Init /\ [][Next]_vars

\* the script is run to its end: no step of it waits on anything
SpecFair == Spec /\ WF_vars(Next)

-----------------------------------------------------------------------------
(* Claims about the script (Spec) *)

Has(seq, entry) == \E k \in 1..Len(seq) : seq[k] = entry

CountOf(seq, bodies) == Cardinality({k \in 1..Len(seq) : seq[k].body \in bodies})

Suggestions ==
    { "Memory error: Try using a smaller model (tiny/base) or a shorter video.",
      "Video format error: Try converting your video to MP4 format.",
      "Permission error: Check file permissions and disk space.",
      "Try using a different model size or check that your video file is valid." }

CleanedUp == Has(log, Logged("info", "Temporary file cleaned up"))
CleanupFailed == Has(log, Logged("warning", "Failed to clean up temporary file"))

\* C7 as stated: once the upload is in a temporary file, no run ends with
\* the file still there, on the success path and on every exception path,
\* and removal is attempted only when a path was recorded.
C7_TempFileAlwaysRemoved ==
    pc = "done" =>
        /\ temp_video_path # None => ~temp_exists
        /\ (CleanedUp \/ CleanupFailed) => temp_video_path # None

\* C7, amended: a run that recorded a temporary file path goes on to its
\* end, on the success path and after an exception of model loading,
\* transcription, save_srt or a UI call, and by then
\* os.remove was attempted exactly once: the file is gone, unless os.remove
\* itself raised, in which case the failure is logged as a warning and the
\* file stays.  Removal is attempted only when a path was recorded.
C7_RemovalAttempted ==
    /\ [](pc = "done" =>
            /\ temp_video_path # None =>
                   /\ CleanedUp \/ CleanupFailed
                   /\ CleanedUp <=> ~temp_exists
                   /\ CleanupFailed <=> temp_exists
                   /\ CountOf(log, {"Temporary file cleaned up",
                                    "Failed to clean up temporary file"}) = 1
            /\ (CleanedUp \/ CleanupFailed) => temp_video_path # None)
    /\ [](~(CleanedUp \/ CleanupFailed) => pc # "done" \/ temp_video_path = None)
    /\ (temp_video_path # None) ~> (pc = "done" /\ (CleanedUp \/ CleanupFailed))

\* a run in which transcription raised ended with the file removed
C7_Witness ==
    /\ pc = "done"
    /\ exc.raised /\ exc.origin = "transcribe"
    /\ temp_video_path = TempPath
    /\ ~temp_exists /\ CleanedUp

TranscriptionFailed == \E k \in 1..Len(log) : log[k].body = "Error during transcription"

TranscriptionError == CHOOSE k \in 1..Len(log) : log[k].body = "Error during transcription"

ResultWidgets == {"success", "text_area", "download_button"}

\* C8: when transcription fails, transcribe_video logs the error and the
\* exception that reaches the handler is the one that was raised (same
\* origin, same message); the handler then shows the error message with
\* that exception's text and exactly one of the four suggestions, the one
\* its if/elif chain selects, and in that run no success message, preview
\* or download button is shown.  The download button is shown only in a run
\* in which transcribe_video and save_srt returned, and it holds all of what
\* save_srt returned.
C8_ErrorSurfacing ==
    /\ TranscriptionFailed =>
           /\ pc \in {"except", "finally", "done"}
           /\ exc.raised
           /\ exc.origin \in {"load_model", "transcribe"}
           /\ exc.msg = log[TranscriptionError].detail
           /\ log[TranscriptionError].level = "error"
           /\ \A k \in 1..Len(shown) : shown[k].widget \notin ResultWidgets
           /\ download = <<>>
           /\ pc \in {"finally", "done"} =>
                  /\ Has(shown, ShownAbout("error", "Error processing video", exc.msg))
                  /\ CountOf(shown, {"Error processing video"}) = 1
                  /\ CountOf(shown, Suggestions) = 1
                  /\ "out of memory" \in exc.msg =>
                         Has(shown, Shown("error", "Memory error: Try using a smaller model (tiny/base) or a shorter video."))
                  /\ ("out of memory" \notin exc.msg /\ ({"format", "codec"} \cap exc.msg) # {}) =>
                         Has(shown, Shown("error", "Video format error: Try converting your video to MP4 format."))
                  /\ (({"out of memory", "format", "codec"} \cap exc.msg) = {} /\ "permission" \in exc.msg) =>
                         Has(shown, Shown("error", "Permission error: Check file permissions and disk space."))
                  /\ (Keywords \cap exc.msg) = {} =>
                         Has(shown, Shown("error", "Try using a different model size or check that your video file is valid."))
    /\ Has(shown, Shown("download_button", "Download .srt file")) =>
           /\ ~TranscriptionFailed
           /\ Has(log, Logged("info", "Transcribing video"))
           /\ pos = Len(segments)
           /\ srt_content = srt_str
           /\ srt_content = ExpectedDoc(segments, Len(segments))
           /\ download = srt_content

\* a run in which model.transcribe raised a codec error that also mentions
\* permissions ended with the format suggestion
C8_Witness ==
    /\ pc = "done"
    /\ TranscriptionFailed
    /\ exc = Raised("transcribe", {"codec", "permission"})
    /\ Has(shown, Shown("error", "Video format error: Try converting your video to MP4 format."))

HandlerBodies ==
    Suggestions \cup {"Error processing video", "Subtitles generated successfully!",
                      "Preview (first 3 subtitles):", "Download .srt file"}

Processing ==
    \/ pc \in {"save_upload", "transcribe", "save_srt", "show_success",
               "show_preview", "show_download", "except", "finally"}
    \/ temp_exists \/ temp_video_path # None
    \/ log # <<>>
    \/ progress_text # None
    \/ exc.raised
    \/ CountOf(shown, HandlerBodies) > 0
    \/ download # <<>> \/ segments # <<>> \/ srt_content # <<>>

\* C9: in a script run a temporary file is created, transcribe_video is
\* called and the handler shows or logs anything only if the button was
\* pressed, a video file is uploaded and check_ffmpeg returned True; with
\* any of the three missing the run ends with none of that.
C9_Gated ==
    /\ Processing => (button /\ video_file.uploaded /\ ffmpeg_ok)
    /\ (pc \in {"save_upload", "done"} /\ button /\ video_file.uploaded /\ ffmpeg_ok)
           => (pc = "save_upload" \/ Processing)

\* the button was pressed with a file uploaded, check_ffmpeg returned
\* False, and the run ended without processing
C9_Witness ==
    /\ pc = "done"
    /\ button /\ video_file.uploaded /\ ~ffmpeg_ok
    /\ ~Processing

\* C10: check_ffmpeg returns True only when the ffmpeg executable can be
\* run, and False when it cannot, so processing is allowed only with a
\* runnable ffmpeg.
C10_TrueOnlyIfFfmpegRuns ==
    pc # "check_ffmpeg" =>
        /\ ffmpeg_ok <=> ffmpeg_runs
        /\ pc = "save_upload" => ffmpeg_runs

-----------------------------------------------------------------------------
(* save_srt called by several callers at once, and again after it returned *)

NCallers == 2

Callers == 1..NCallers

\* the segment lists the callers pass
PureInputs ==
    { <<>>,
      <<[start |-> ToFloat(1, 500, 1000), end |-> ToFloat(3, 800, 1000),
         text |-> <<" ", "a", " ", "\n", "b", " ">>]>>,
      <<[start |-> ToFloat(1, 500, 1000), end |-> ToFloat(3, 800, 1000),
         text |-> <<"H", "i">>],
        [start |-> ToFloat(3, 800, 1000), end |-> ToFloat(3, 800, 1000),
         text |-> <<>>]>> }

\* a caller that has not called save_srt: given is the argument as it was
\* when passed, segments the list the call reads
NoFrame == [status |-> "idle", given |-> <<>>, segments |-> <<>>, pos |-> 0, srt_str |-> <<>>]

\* a buffer kept from the caller's previous call
RetainedDocument(frame) == frame.srt_str

\* srt_str = "": each call starts from its own empty local
FreshDocument(frame) == <<>>

InitPure ==
    /\ pc = "callers"
    /\ calls = [frames |-> [c \in Callers |-> NoFrame], returned |-> {}]
    /\ TimeIdle /\ SrtIdle /\ ScriptIdle

\* save_srt(segs) is entered
PureCall(c) ==
    /\ calls.frames[c].status \in {"idle", "returned"}
    /\ \E segs \in PureInputs :
           calls' = [calls EXCEPT !.frames[c] =
                        [status |-> "running", given |-> segs, segments |-> segs,
                         pos |-> 0, srt_str |-> FreshDocument(calls.frames[c])]]
    /\ UNCHANGED <<pc, timeVars, srtVars, scriptVars>>

\* one pass of the loop of the call of c
PureStep(c) ==
    LET frame == calls.frames[c]
        segment == frame.segments[frame.pos + 1]
    IN  /\ frame.status = "running"
        /\ frame.pos < Len(frame.segments)
        /\ calls' = [calls EXCEPT !.frames[c] =
                        [frame EXCEPT
                            !.srt_str = frame.srt_str
                                \o Block(enumerate(frame.pos), format_time_of[segment.start],
                                         format_time_of[segment.end], strip(segment.text)),
                            !.pos = frame.pos + 1]]
        /\ UNCHANGED <<pc, timeVars, srtVars, scriptVars>>

\* return srt_str
PureReturn(c) ==
    LET frame == calls.frames[c]
    IN  /\ frame.status = "running"
        /\ frame.pos = Len(frame.segments)
        /\ calls' = [calls EXCEPT
                        !.frames[c] = [frame EXCEPT !.status = "returned"],
                        !.returned = @ \cup {[input |-> frame.given, output |-> frame.srt_str]}]
        /\ UNCHANGED <<pc, timeVars, srtVars, scriptVars>>

NextPure == \E c \in Callers : PureCall(c) \/ PureStep(c) \/ PureReturn(c)

SpecPure == InitPure /\ [][NextPure]_vars

-----------------------------------------------------------------------------
(* Claims about the calls of save_srt (SpecPure) *)

\* C6: save_srt, and format_time which it calls, are functions of their
\* argument alone: any two calls that returned, by the same caller or by
\* different ones, one after the other or interleaved with calls on other
\* inputs, returned the same document if they were given the same segment
\* list; and the list a call was given is unchanged while it runs and
\* after it returned.
C6_Pure ==
    /\ \A p, q \in calls.returned : p.input = q.input => p.output = q.output
    /\ \A c \in Callers :
           LET frame == calls.frames[c]
           IN  /\ frame.segments = frame.given
               /\ frame.status = "returned" =>
                      [input |-> frame.given, output |-> frame.srt_str] \in calls.returned

\* two callers returned from calls on the same non-empty list, after a call
\* on another list had returned
C6_Witness ==
    /\ \A c \in Callers : calls.frames[c].status = "returned"
    /\ \A c, d \in Callers : calls.frames[c].given = calls.frames[d].given
    /\ \A c \in Callers : Len(calls.frames[c].given) = 2
    /\ \E p \in calls.returned : Len(p.input) = 1

====
